---- MODULE Spec2Model ----
(***************************************************************************)
(* A model of TJSON (src/index.js): the tagged codec registry (the static  *)
(* fields replacers and revivers, the add builder, modify, find, remove,   *)
(* activateStandards) and the two passes that JSON.stringify and           *)
(* JSON.parse drive (replacer, reviver) with the six standard codecs.      *)
(*                                                                         *)
(* JavaScript values are records with a field k naming the kind.  Strings  *)
(* are sequences of one-character strings, so that startsWith, slice and   *)
(* concatenation are computed on the characters.  Array indices are kept   *)
(* 0-based where the code's behaviour depends on them (find, remove).      *)
(***************************************************************************)
EXTENDS Integers, Sequences, FiniteSets

VARIABLES replacers, revivers, stages, handles, last, npush, nmod, npass, input

vars == <<replacers, revivers, stages, handles, last, npush, nmod, npass, input>>

(***************************************************************************)
(* Bounds                                                                  *)
(***************************************************************************)
\* builder pushes onto each of the two sequences (activateStandards is not counted)
MaxEntries == 2
\* builder stage objects a caller keeps alive at the same time
MaxStages == 1
\* component replacements made through modify handles
MaxMods == 1

(***************************************************************************)
(* JavaScript values                                                       *)
(***************************************************************************)
Str(s) == [k |-> "str", s |-> s]
Num(n) == [k |-> "num", n |-> n]
Big(n) == [k |-> "big", n |-> n]
Bool(b) == [k |-> "bool", b |-> b]
Fn(id) == [k |-> "fn", id |-> id]
Arr(e) == [k |-> "arr", e |-> e]
Obj(f) == [k |-> "obj", f |-> f]
Null == [k |-> "null"]
NaN == [k |-> "nan"]
Undefined == [k |-> "undefined"]

\* the values under the keys of an object or the indices of an array, in
\* the order "for (key in val)" visits them
Members(v) ==
  CASE v.k = "obj" -> [j \in 1..Len(v.f) |-> v.f[j].val]
    [] v.k = "arr" -> v.e
    [] OTHER -> << >>

\* the object or array v with the values ms at its keys
WithMembers(v, ms) ==
  CASE v.k = "obj" -> Obj([j \in 1..Len(v.f) |-> [key |-> v.f[j].key, val |-> ms[j]]])
    [] v.k = "arr" -> Arr(ms)
    [] OTHER -> v

\* the typeof operator
TypeOf(v) ==
  CASE v.k = "str" -> "string"
    [] v.k \in {"num", "nan"} -> "number"
    [] v.k = "big" -> "bigint"
    [] v.k = "bool" -> "boolean"
    [] v.k = "fn" -> "function"
    [] v.k = "undefined" -> "undefined"
    [] OTHER -> "object"

(***************************************************************************)
(* Tags and functions handed to the registry                               *)
(***************************************************************************)
T00 == <<"(", "0", "0", ")">>
T01 == <<"(", "0", "1", ")">>
T02 == <<"(", "0", "2", ")">>
T03 == <<"(", "0", "3", ")">>
T04 == <<"(", "0", "4", ")">>
T05 == <<"(", "0", "5", ")">>
T06 == <<"(", "0", "6", ")">>

\* tags a caller registers: a standard one and one of its own (README: (06))
Tags == {T03, T06}
\* functions a caller passes: f to the builder, g to a modify handle
FnIds == {"f", "g"}
\* arguments of add, modify, remove: strings and one non-string
TagArgs == {Str(t) : t \in Tags} \cup {Num(7)}
\* arguments of the builder and handle steps: functions and one non-function
FnArgs == {Fn("f"), Null}
ModArgs == {Fn("g"), Null}

\* static get standards(): tag, check, replacer, reviver of the six codecs
Standards ==
  << [tag |-> T00, check |-> "check00", replacer |-> "replacer00", reviver |-> "reviver00"],
     [tag |-> T01, check |-> "check01", replacer |-> "replacer01", reviver |-> "reviver01"],
     [tag |-> T02, check |-> "check02", replacer |-> "replacer02", reviver |-> "reviver02"],
     [tag |-> T03, check |-> "check03", replacer |-> "replacer03", reviver |-> "reviver03"],
     [tag |-> T04, check |-> "check04", replacer |-> "replacer04", reviver |-> "reviver04"],
     [tag |-> T05, check |-> "check05", replacer |-> "replacer05", reviver |-> "reviver05"] >>

(***************************************************************************)
(* Strings and numbers                                                     *)
(***************************************************************************)
\* String.prototype.startsWith(t)
StartsWith(s, t) == Len(t) <= Len(s) /\ SubSeq(s, 1, Len(t)) = t

\* String.prototype.slice(n) for 0 <= n
Slice(s, n) == IF n >= Len(s) THEN << >> ELSE SubSeq(s, n + 1, Len(s))

\* the digits of radix 36 (and, as the first ten, of radix 10)
Digits36 ==
  << "0", "1", "2", "3", "4", "5", "6", "7", "8", "9", "a", "b", "c", "d", "e", "f",
     "g", "h", "i", "j", "k", "l", "m", "n", "o", "p", "q", "r", "s", "t", "u", "v",
     "w", "x", "y", "z" >>

\* the value of character c as a digit, -1 when it is not one
DigitVal(c) ==
  LET hits == {i \in 1..Len(Digits36) : Digits36[i] = c}
  IN IF hits = {} THEN -1 ELSE (CHOOSE i \in hits : TRUE) - 1

RECURSIVE NatToString(_, _)
\* the digits of the natural number n in the given radix
NatToString(n, radix) ==
  IF n < radix
  THEN <<Digits36[n + 1]>>
  ELSE NatToString(n \div radix, radix) \o <<Digits36[(n % radix) + 1]>>

\* Number.prototype.toString(radix) and BigInt.prototype.toString(radix) of an integer
IntToString(n, radix) ==
  IF n < 0 THEN <<"-">> \o NatToString(-n, radix) ELSE NatToString(n, radix)

RECURSIVE DigitPrefixLen(_, _, _)
\* how many characters of s, from position p on, are digits of the radix
DigitPrefixLen(s, p, radix) ==
  IF p > Len(s) \/ DigitVal(s[p]) < 0 \/ DigitVal(s[p]) >= radix
  THEN 0
  ELSE 1 + DigitPrefixLen(s, p + 1, radix)

RECURSIVE DigitsValue(_, _, _, _)
\* the number written by the n digits of s that start at position p
DigitsValue(s, p, n, radix) ==
  IF n = 0 THEN 0
  ELSE DigitsValue(s, p, n - 1, radix) * radix + DigitVal(s[p + n - 1])

RECURSIVE SkipSpaces(_, _)
SkipSpaces(s, p) == IF p <= Len(s) /\ s[p] = " " THEN SkipSpaces(s, p + 1) ELSE p

\* parseInt that reads no sign
ParseIntUnsigned(s, radix) ==
  IF DigitPrefixLen(s, 1, radix) = 0 THEN NaN
  ELSE Num(DigitsValue(s, 1, DigitPrefixLen(s, 1, radix), radix))

\* parseInt(s, radix): leading white space and a sign are skipped, the longest
\* run of digits is read and the rest ignored; NaN when there is no digit
ParseInt(s, radix) ==
  LET p0 == SkipSpaces(s, 1)
      signed == p0 <= Len(s) /\ s[p0] \in {"-", "+"}
      p1 == IF signed THEN p0 + 1 ELSE p0
      n == DigitPrefixLen(s, p1, radix)
      mag == DigitsValue(s, p1, n, radix)
  IN IF n = 0 THEN NaN
     ELSE IF signed /\ s[p0] = "-" THEN Num(-mag) ELSE Num(mag)

\* what a function call gives when the function throws
Throw(err) == [k |-> "throw", err |-> err]

\* BigInt(s) of a string: the empty string is 0n, an optionally signed run of
\* decimal digits is its value, anything else throws a SyntaxError (strings with
\* surrounding white space or a 0x, 0o, 0b prefix are not among the inputs)
StringToBigInt(s) ==
  LET signed == Len(s) > 0 /\ s[1] \in {"-", "+"}
      p1 == IF signed THEN 2 ELSE 1
      n == DigitPrefixLen(s, p1, 10)
  IN IF Len(s) = 0 THEN Big(0)
     ELSE IF n = 0 \/ p1 + n - 1 # Len(s) THEN Throw("SyntaxError")
     ELSE IF signed /\ s[1] = "-" THEN Big(-DigitsValue(s, p1, n, 10))
     ELSE Big(DigitsValue(s, p1, n, 10))

\* ToBoolean: what "if (x)" tests
Truthy(v) ==
  CASE v.k = "str" -> Len(v.s) > 0
    [] v.k \in {"num", "big"} -> v.n # 0
    [] v.k = "bool" -> v.b
    [] v.k \in {"null", "undefined", "nan"} -> FALSE
    [] OTHER -> TRUE

\* ToString of the language, as applied by "tag + x"
ToStringJS(v) ==
  CASE v.k = "str" -> v.s
    [] v.k \in {"num", "big"} -> IntToString(v.n, 10)
    [] v.k = "nan" -> <<"N", "a", "N">>
    [] v.k = "bool" -> IF v.b THEN <<"t", "r", "u", "e">> ELSE <<"f", "a", "l", "s", "e">>
    [] v.k = "null" -> <<"n", "u", "l", "l">>

(***************************************************************************)
(* The functions stored in the registry                                    *)
(***************************************************************************)
\* new Date(x): an instant holding the time value x (a number or NaN)
Date(t) == [k |-> "date", t |-> t]

\* a Map holding the entries e, a sequence of <<key, value>> pairs in
\* insertion order, and a Set holding the members e in insertion order
Map(e) == [k |-> "map", e |-> e]
Set(e) == [k |-> "set", e |-> e]

\* values that SameValueZero compares by what they are; objects (arrays,
\* Dates, Maps, Sets included) are the same only as the same object
IsPrimitive(v) == v.k \in {"str", "num", "nan", "big", "bool", "null", "undefined"}

\* Map.prototype.set(key, value) on the entries e: the value of an entry with
\* the same key is replaced where it stands, a new key goes to the end
MapSet(e, key, value) ==
  IF IsPrimitive(key) /\ \E j \in 1..Len(e) : e[j][1] = key
  THEN [j \in 1..Len(e) |-> IF e[j][1] = key THEN <<key, value>> ELSE e[j]]
  ELSE Append(e, <<key, value>>)

\* Set.prototype.add(value) on the members e
SetAdd(e, value) ==
  IF IsPrimitive(value) /\ \E j \in 1..Len(e) : e[j] = value THEN e ELSE Append(e, value)

\* the values that iterating x yields: the elements of an array, the
\* one-character strings of a string, the [key, value] arrays of a Map, the
\* members of a Set; << >> for null and undefined, which the constructors
\* take for "no iterable"
Iterate(x) ==
  CASE x.k \in {"arr", "set"} -> x.e
    [] x.k = "str" -> [j \in 1..Len(x.s) |-> Str(<<x.s[j]>>)]
    [] x.k = "map" -> [j \in 1..Len(x.e) |-> Arr(x.e[j])]
    [] OTHER -> << >>

\* whether x can be handed to new Map(x) or new Set(x) without a TypeError
\* for "not iterable"
IsIterable(x) == x.k \in {"arr", "set", "str", "map", "null", "undefined"}

\* item[0] and item[1] of an entry object handed to the Map constructor
EntryPart(item, n) == IF item.k = "arr" /\ n <= Len(item.e) THEN item.e[n] ELSE Undefined

RECURSIVE MapFrom(_, _, _)
\* the loop of the Map constructor over the items from j on: an item that is
\* not an object throws a TypeError
MapFrom(items, j, e) ==
  IF j > Len(items) THEN Map(e)
  ELSE IF IsPrimitive(items[j]) THEN Throw("TypeError")
  ELSE MapFrom(items, j + 1, MapSet(e, EntryPart(items[j], 1), EntryPart(items[j], 2)))

RECURSIVE SetFrom(_, _, _)
\* the loop of the Set constructor over the items from j on
SetFrom(items, j, e) ==
  IF j > Len(items) THEN Set(e) ELSE SetFrom(items, j + 1, SetAdd(e, items[j]))

\* new Map(x) and new Set(x), x being a value or the error that computing
\* the argument threw
NewMap(x) ==
  IF x.k = "throw" THEN x
  ELSE IF ~IsIterable(x) THEN Throw("TypeError")
  ELSE MapFrom(Iterate(x), 1, << >>)

NewSet(x) ==
  IF x.k = "throw" THEN x
  ELSE IF ~IsIterable(x) THEN Throw("TypeError")
  ELSE SetFrom(Iterate(x), 1, << >>)

\* the constructor that the reviver function id calls
New(id, x) == IF id = "reviver04" THEN NewMap(x) ELSE NewSet(x)

\* what a call of TJSON.stringify hands to its caller: the text as a string,
\* undefined, or the error thrown
Returned(r) ==
  CASE r.k = "text" -> Str(r.t)
    [] r.k = "throw" -> Throw(r.err)
    [] OTHER -> Undefined

RECURSIVE Stringify(_, _)
RECURSIVE Parse(_, _)

\* the result of calling the function id on the argument v.  Standard codecs
\* (static get standards()):
\*   (00) check: typeof v === "number"; replacer: v.toString(36); reviver: parseInt(v, 36)
\*   (01) check: typeof v === "bigint"; replacer: v => v; reviver: BigInt(v)
\*   (02) check: v instanceof RegExp
\*   (03) check: v instanceof Date; replacer: v.valueOf().toString(36);
\*        reviver: new Date(parseInt(v, 36))
\*   (04) check: v instanceof Map; replacer: TJSON.stringify([...v.entries()]);
\*        reviver: new Map(TJSON.parse(v))
\*   (05) check: v instanceof Set; replacer: TJSON.stringify([...v.values()]);
\*        reviver: new Set(TJSON.parse(v))
\* The functions of (04) and (05) go through TJSON.stringify and TJSON.parse,
\* which read the static fields replacers and revivers as they are at the call.
\* Functions of a caller:
\*   isNumber: v => typeof v === "number"     isString: v => typeof v === "string"
\*   always: v => true                        identity: v => v (README, tag (07))
\*   constA: v => "A"     constB: v => "B"    empty: v => ""
\*   undef: v => undefined
ApplyFn(id, v) ==
  CASE id = "check00" -> Bool(TypeOf(v) = "number")
    [] id = "replacer00" -> IF v.k = "nan" THEN Str(<<"N", "a", "N">>) ELSE Str(IntToString(v.n, 36))
    [] id = "reviver00" -> ParseInt(v.s, 36)
    [] id = "check01" -> Bool(TypeOf(v) = "bigint")
    [] id = "replacer01" -> v
    [] id = "reviver01" -> StringToBigInt(v.s)
    [] id = "check02" -> Bool(v.k = "regexp")
    [] id = "check03" -> Bool(v.k = "date")
    [] id = "replacer03" -> IF v.t.k = "nan" THEN Str(<<"N", "a", "N">>) ELSE Str(IntToString(v.t.n, 36))
    [] id = "reviver03" -> Date(ParseInt(v.s, 36))
    [] id = "check04" -> Bool(v.k = "map")
    [] id = "check05" -> Bool(v.k = "set")
    [] id \in {"replacer04", "replacer05"} -> Returned(Stringify(replacers, Arr(Iterate(v))))
    [] id \in {"reviver04", "reviver05"} -> New(id, Parse(revivers, v.s))
    [] id = "isNumber" -> Bool(TypeOf(v) = "number")
    [] id = "isString" -> Bool(TypeOf(v) = "string")
    [] id = "always" -> Bool(TRUE)
    [] id = "identity" -> v
    [] id = "constA" -> Str(<<"A">>)
    [] id = "constB" -> Str(<<"B">>)
    [] id = "empty" -> Str(<< >>)
    [] id = "undef" -> Undefined

(***************************************************************************)
(* The encode pass: static replacer(name, val)                             *)
(***************************************************************************)
\* one call made by a pass: entry i's check or exec on arg
Called(i, what, arg) == [i |-> i, what |-> what, arg |-> arg]

RECURSIVE ScanReplacersNoSuccessTest(_, _, _)
\* the loop without "if (success)": the first entry whose check is truthy is used
ScanReplacersNoSuccessTest(reps, i, v) ==
  IF i > Len(reps)
  THEN [v |-> v, log |-> << >>]
  ELSE IF Truthy(ApplyFn(reps[i].check, v))
  THEN [v |-> Str(reps[i].tag \o ToStringJS(ApplyFn(reps[i].exec, v))),
        log |-> <<Called(i, "check", v), Called(i, "exec", v)>>]
  ELSE LET rest == ScanReplacersNoSuccessTest(reps, i + 1, v)
       IN [v |-> rest.v, log |-> <<Called(i, "check", v)>> \o rest.log]

\* the calls log followed by what the rest of the loop gave
After(log, rest) == [v |-> rest.v, log |-> log \o rest.log]

RECURSIVE ScanReplacers(_, _, _)

\* "success = replacer.exec(val[key]); if (success) { ...; break }" for entry
\* i, whose check was truthy on v and whose exec gave success
Exec(reps, i, v, success) ==
  IF success.k = "throw"
  THEN [v |-> success, log |-> <<Called(i, "check", v), Called(i, "exec", v)>>]
  ELSE IF Truthy(success)
  THEN [v |-> Str(reps[i].tag \o ToStringJS(success)),
        log |-> <<Called(i, "check", v), Called(i, "exec", v)>>]
  ELSE After(<<Called(i, "check", v), Called(i, "exec", v)>>, ScanReplacers(reps, i + 1, v))

\* the loop "for (i = 0; i < length; i++)" over the entries from i on, for the
\* value v held at one key: the value to store at the key and the calls made,
\* or the error that an exec threw
ScanReplacers(reps, i, v) ==
  IF i > Len(reps)
  THEN [v |-> v, log |-> << >>]
  ELSE IF Truthy(ApplyFn(reps[i].check, v))
  THEN Exec(reps, i, v, ApplyFn(reps[i].exec, v))
  ELSE After(<<Called(i, "check", v)>>, ScanReplacers(reps, i + 1, v))

RECURSIVE ConcatLogs(_)
ConcatLogs(rs) == IF rs = << >> THEN << >> ELSE Head(rs).log \o ConcatLogs(Tail(rs))

\* the 1-based index of the first key at which an exec threw, 0 when none did
FirstThrowingKey(rs) ==
  LET hits == {j \in 1..Len(rs) : rs[j].v.k = "throw"}
  IN IF hits = {} THEN 0 ELSE CHOOSE j \in hits : \A i \in hits : j <= i

\* the key loop writing nothing
WrittenKeysNone(cs, rs) == cs

\* the values under the keys cs after the key loop with the per-key results
\* rs: the loop ends at the first key whose exec throws, the keys before it
\* are written
WrittenKeys(cs, rs) ==
  [j \in 1..Len(cs) |->
     IF FirstThrowingKey(rs) = 0 \/ j < FirstThrowingKey(rs) THEN rs[j].v ELSE cs[j]]

\* the calls made by the key loop up to and including the key that threw
LogsOf(rs) ==
  IF FirstThrowingKey(rs) = 0 THEN ConcatLogs(rs)
  ELSE ConcatLogs(SubSeq(rs, 1, FirstThrowingKey(rs)))

\* val after the key loop with the per-key results rs, and the calls made;
\* when an exec threw, the error with val as the keys written before it
\* left it
Rewritten(val, rs) ==
  LET mut == WithMembers(val, WrittenKeys(Members(val), rs))
  IN [v |-> IF FirstThrowingKey(rs) = 0 THEN mut
            ELSE [k |-> "throw", err |-> rs[FirstThrowingKey(rs)].v.err, mut |-> mut],
      log |-> LogsOf(rs)]

\* replacer(name, val): "for (key in val)" visits the members of an object and
\* the elements of an array; null and the objects without enumerable keys
\* (Date, RegExp, Map, Set) have nothing to visit; typeof of any other value
\* is not "object".  Gives the value returned (val with its keys rewritten)
\* and the calls made
Replacer(reps, val) ==
  IF val.k \in {"obj", "arr"}
  THEN Rewritten(val, [j \in 1..Len(Members(val)) |-> ScanReplacers(reps, 1, Members(val)[j])])
  ELSE [v |-> val, log |-> << >>]

(***************************************************************************)
(* The decode pass: static reviver(name, val)                              *)
(***************************************************************************)
RECURSIVE ScanReviversWholeString(_, _, _)
\* the loop with exec called on val in place of val.slice(reviver.tag.length)
ScanReviversWholeString(revs, i, val) ==
  IF i > Len(revs)
  THEN [v |-> val, log |-> << >>]
  ELSE IF TypeOf(val) = "string" /\ StartsWith(val.s, revs[i].tag)
  THEN LET success == ApplyFn(revs[i].exec, val)
       IN IF success.k = "throw" \/ Truthy(success)
          THEN [v |-> success, log |-> <<Called(i, "exec", val)>>]
          ELSE LET rest == ScanReviversWholeString(revs, i + 1, val)
               IN [v |-> rest.v, log |-> <<Called(i, "exec", val)>> \o rest.log]
  ELSE ScanReviversWholeString(revs, i + 1, val)

RECURSIVE ScanRevivers(_, _, _)

\* "success = reviver.exec(val.slice(reviver.tag.length)); if (success) {
\* val = success; break }" for entry i, whose tag begins val and whose exec
\* gave success on arg
Revived(revs, i, val, arg, success) ==
  IF success.k = "throw" \/ Truthy(success)
  THEN [v |-> success, log |-> <<Called(i, "exec", arg)>>]
  ELSE After(<<Called(i, "exec", arg)>>, ScanRevivers(revs, i + 1, val))

\* the argument that entry i's exec is called with for the string val
Payload(revs, i, val) == Str(Slice(val.s, Len(revs[i].tag)))

\* the loop over the revivers from i on: the value returned, the calls made,
\* or the error thrown by a reviver function
ScanRevivers(revs, i, val) ==
  IF i > Len(revs)
  THEN [v |-> val, log |-> << >>]
  ELSE IF TypeOf(val) = "string" /\ StartsWith(val.s, revs[i].tag)
  THEN Revived(revs, i, val, Payload(revs, i, val),
               ApplyFn(revs[i].exec, Payload(revs, i, val)))
  ELSE ScanRevivers(revs, i + 1, val)

\* reviver(name, val)
Reviver(revs, val) == ScanRevivers(revs, 1, val)

(***************************************************************************)
(* JSON.stringify(value, TJSON.replacer) and JSON.parse(text, TJSON.reviver) *)
(* of the platform, for values made of objects, arrays, strings, integers,   *)
(* booleans and null, printed without indentation                            *)
(***************************************************************************)
RECURSIVE EscapeJSON(_)
\* the characters of a string as they stand between the quotes of a JSON
\* string: a quote and a backslash get a backslash in front
EscapeJSON(s) ==
  IF s = << >> THEN << >>
  ELSE (IF Head(s) \in {"\"", "\\"} THEN <<"\\", Head(s)>> ELSE <<Head(s)>>) \o EscapeJSON(Tail(s))

QuoteJSONString(s) == <<"\"">> \o EscapeJSON(s) \o <<"\"">>

\* what a serialization step gives: the text written, undefined (nothing to
\* write) or the error thrown, each with the value as the replacer calls
\* left it (they write into the objects they are handed)
Text(t, mut) == [k |-> "text", t |-> t, mut |-> mut]
NoText(mut) == [k |-> "undefined", mut |-> mut]
Thrown(err, mut) == [k |-> "throw", err |-> err, mut |-> mut]

\* the 1-based index of the first result that is a throw, 0 when none is
FirstThrow(rs) ==
  LET hits == {j \in 1..Len(rs) : rs[j].k = "throw"}
  IN IF hits = {} THEN 0 ELSE CHOOSE j \in hits : \A i \in hits : j <= i

\* the children cs of a node after its children were serialized with the
\* results rs: serialization stops at the first child that throws, and the
\* children after it are as the replacer call on the node left them
MutatedChildren(cs, rs) ==
  [j \in 1..Len(cs) |->
     IF FirstThrow(rs) = 0 \/ j <= FirstThrow(rs) THEN rs[j].mut ELSE cs[j]]

RECURSIVE JoinMembers(_, _, _, _)
\* the members with keys ks and results rs from member j on, appended to
\* acc; a member whose value serializes to undefined is left out
JoinMembers(ks, rs, j, acc) ==
  IF j > Len(rs) THEN <<"{">> \o acc \o <<"}">>
  ELSE IF rs[j].k = "undefined" THEN JoinMembers(ks, rs, j + 1, acc)
  ELSE JoinMembers(ks, rs, j + 1,
         acc \o (IF acc = << >> THEN << >> ELSE <<",">>)
             \o QuoteJSONString(ks[j]) \o <<":">> \o rs[j].t)

RECURSIVE JoinElements(_, _, _)
\* the elements with results rs from element j on, appended to acc; an
\* element that serializes to undefined is written as null
JoinElements(rs, j, acc) ==
  IF j > Len(rs) THEN <<"[">> \o acc \o <<"]">>
  ELSE JoinElements(rs, j + 1,
         acc \o (IF j = 1 THEN << >> ELSE <<",">>)
             \o (IF rs[j].k = "undefined" THEN <<"n", "u", "l", "l">> ELSE rs[j].t))

\* an object whose members, holding the values cs under the keys ks, were
\* serialized with the results rs
SerializeJSONObject(ks, cs, rs) ==
  IF FirstThrow(rs) # 0
  THEN Thrown(rs[FirstThrow(rs)].err,
              Obj([j \in 1..Len(cs) |-> [key |-> ks[j], val |-> MutatedChildren(cs, rs)[j]]]))
  ELSE Text(JoinMembers(ks, rs, 1, << >>),
            Obj([j \in 1..Len(cs) |-> [key |-> ks[j], val |-> rs[j].mut]]))

\* an array whose elements cs were serialized with the results rs
SerializeJSONArray(cs, rs) ==
  IF FirstThrow(rs) # 0
  THEN Thrown(rs[FirstThrow(rs)].err, Arr(MutatedChildren(cs, rs)))
  ELSE Text(JoinElements(rs, 1, << >>), Arr([j \in 1..Len(cs) |-> rs[j].mut]))

\* the three decimal digits of n, 0 <= n < 1000
Pad3(n) == <<Digits36[(n \div 100) + 1], Digits36[((n \div 10) % 10) + 1], Digits36[(n % 10) + 1]>>

\* Date.prototype.toISOString for a time value within a second of the epoch
\* (the Dates among the inputs): 1970-01-01T00:00:00.mmmZ from the epoch on,
\* 1969-12-31T23:59:59.mmmZ before it
ToISOString(t) ==
  IF t >= 0
  THEN <<"1", "9", "7", "0", "-", "0", "1", "-", "0", "1", "T",
         "0", "0", ":", "0", "0", ":", "0", "0", ".">> \o Pad3(t) \o <<"Z">>
  ELSE <<"1", "9", "6", "9", "-", "1", "2", "-", "3", "1", "T",
         "2", "3", ":", "5", "9", ":", "5", "9", ".">> \o Pad3(1000 + t) \o <<"Z">>

\* Date.prototype.toJSON: the ISO string, null for an invalid Date
DateToJSON(d) == IF d.t.k = "nan" THEN Null ELSE Str(ToISOString(d.t.n))

RECURSIVE SerializeJSONProperty(_, _)

\* what SerializeJSONProperty writes for the value val that the replacer
\* function returned, according to its type: the members of an object and
\* the elements of an array in their order, each passed through the
\* replacer function first; a BigInt makes it throw a TypeError.  A Date
\* still held at its key is written as what its toJSON gives (toJSON runs
\* before the replacer function, which leaves a string as it is); a Map and
\* a Set have no enumerable keys and are written as {}; an error thrown by
\* the replacer function ends the serialization
SerializeValue(reps, val) ==
  CASE val.k = "throw" -> val
    [] val.k = "date" ->
         IF val.t.k = "nan" THEN Text(<<"n", "u", "l", "l">>, val)
         ELSE Text(QuoteJSONString(DateToJSON(val).s), val)
    [] val.k \in {"map", "set"} -> Text(<<"{", "}">>, val)
    [] val.k = "null" -> Text(<<"n", "u", "l", "l">>, val)
    [] val.k = "bool" -> Text(ToStringJS(val), val)
    [] val.k = "str" -> Text(QuoteJSONString(val.s), val)
    [] val.k = "num" -> Text(IntToString(val.n, 10), val)
    [] val.k = "nan" -> Text(<<"n", "u", "l", "l">>, val)
    [] val.k = "big" -> Thrown("TypeError", val)
    [] val.k \in {"undefined", "fn"} -> NoText(val)
    [] val.k = "obj" ->
         SerializeJSONObject(
           [j \in 1..Len(val.f) |-> val.f[j].key],
           [j \in 1..Len(val.f) |-> val.f[j].val],
           [j \in 1..Len(val.f) |-> SerializeJSONProperty(reps, val.f[j].val)])
    [] val.k = "arr" ->
         SerializeJSONArray(
           val.e,
           [j \in 1..Len(val.e) |-> SerializeJSONProperty(reps, val.e[j])])

\* SerializeJSONProperty of the platform: the replacer function is called on
\* the value first, and what it returns is written
SerializeJSONProperty(reps, value) == SerializeValue(reps, Replacer(reps, value).v)

\* stringify that hands the root to the codecs as if it were held under a key
StringifyTestingRoot(reps, value) == SerializeJSONProperty(reps, ScanReplacers(reps, 1, value).v)

\* static stringify(value, space), space left undefined
Stringify(reps, value) == SerializeJSONProperty(reps, value)

\* the character at position p, "" past the end
At(t, p) == IF p >= 1 /\ p <= Len(t) THEN t[p] ELSE ""

Parsed(v, p) == [ok |-> TRUE, v |-> v, p |-> p]
NotParsed == [ok |-> FALSE, v |-> Null, p |-> 0]

RECURSIVE ParseStringChars(_, _, _)
\* the characters of a JSON string whose opening quote precedes position p
ParseStringChars(t, p, acc) ==
  IF At(t, p) = "" THEN NotParsed
  ELSE IF At(t, p) = "\"" THEN Parsed(acc, p + 1)
  ELSE IF At(t, p) = "\\"
  THEN IF At(t, p + 1) \in {"\"", "\\", "/"}
       THEN ParseStringChars(t, p + 2, Append(acc, At(t, p + 1)))
       ELSE NotParsed
  ELSE ParseStringChars(t, p + 1, Append(acc, At(t, p)))

\* a JSON integer at position p
ParseNumber(t, p) ==
  LET neg == At(t, p) = "-"
      p1 == IF neg THEN p + 1 ELSE p
      n == DigitPrefixLen(t, p1, 10)
      mag == DigitsValue(t, p1, n, 10)
  IN IF n = 0 \/ (n > 1 /\ At(t, p1) = "0") THEN NotParsed
     ELSE Parsed(Num(IF neg THEN -mag ELSE mag), p1 + n)

RECURSIVE ParseJSON(_, _, _, _)
\* the JSON parser at position p of the text t: in mode "value" it reads one
\* value; in mode "elements" the elements of an array, p standing after "["
\* or ",", acc holding the elements read; in mode "members" the members of
\* an object, p standing after "{" or ","
ParseJSON(t, p, mode, acc) ==
  CASE mode = "elements" ->
         IF acc = << >> /\ At(t, p) = "]" THEN Parsed(Arr(acc), p + 1)
         ELSE LET r == ParseJSON(t, p, "value", << >>)
              IN IF ~r.ok THEN NotParsed
                 ELSE IF At(t, r.p) = ","
                 THEN ParseJSON(t, r.p + 1, "elements", Append(acc, r.v))
                 ELSE IF At(t, r.p) = "]" THEN Parsed(Arr(Append(acc, r.v)), r.p + 1)
                 ELSE NotParsed
    [] mode = "members" ->
         IF acc = << >> /\ At(t, p) = "}" THEN Parsed(Obj(acc), p + 1)
         ELSE IF At(t, p) # "\"" THEN NotParsed
         ELSE LET key == ParseStringChars(t, p + 1, << >>)
              IN IF ~key.ok \/ At(t, key.p) # ":" THEN NotParsed
                 ELSE LET r == ParseJSON(t, key.p + 1, "value", << >>)
                          m == [key |-> key.v, val |-> r.v]
                      IN IF ~r.ok THEN NotParsed
                         ELSE IF At(t, r.p) = ","
                         THEN ParseJSON(t, r.p + 1, "members", Append(acc, m))
                         ELSE IF At(t, r.p) = "}" THEN Parsed(Obj(Append(acc, m)), r.p + 1)
                         ELSE NotParsed
    [] mode = "value" /\ At(t, p) = "{" -> ParseJSON(t, p + 1, "members", << >>)
    [] mode = "value" /\ At(t, p) = "[" -> ParseJSON(t, p + 1, "elements", << >>)
    [] mode = "value" /\ At(t, p) = "\"" ->
         LET r == ParseStringChars(t, p + 1, << >>)
         IN IF r.ok THEN Parsed(Str(r.v), r.p) ELSE NotParsed
    [] mode = "value" /\ At(t, p) = "t" ->
         IF StartsWith(Slice(t, p - 1), <<"t", "r", "u", "e">>)
         THEN Parsed(Bool(TRUE), p + 4) ELSE NotParsed
    [] mode = "value" /\ At(t, p) = "f" ->
         IF StartsWith(Slice(t, p - 1), <<"f", "a", "l", "s", "e">>)
         THEN Parsed(Bool(FALSE), p + 5) ELSE NotParsed
    [] mode = "value" /\ At(t, p) = "n" ->
         IF StartsWith(Slice(t, p - 1), <<"n", "u", "l", "l">>)
         THEN Parsed(Null, p + 4) ELSE NotParsed
    [] OTHER -> ParseNumber(t, p)

\* the node val whose children were revived with the results rs: the error
\* of the first child that threw, or what the reviver function gives for
\* val holding the revived children
Revive(revs, val, rs) ==
  IF FirstThrow(rs) # 0 THEN rs[FirstThrow(rs)]
  ELSE Reviver(revs, WithMembers(val, rs)).v

RECURSIVE InternalizeJSONProperty(_, _)
\* InternalizeJSONProperty of the platform: the children are revived first,
\* in their order, then the reviver function is called on the node itself
InternalizeJSONProperty(revs, val) ==
  Revive(revs, val,
         [j \in 1..Len(Members(val)) |-> InternalizeJSONProperty(revs, Members(val)[j])])

\* static parse(text)
Parse(revs, text) ==
  LET r == ParseJSON(text, 1, "value", << >>)
  IN IF r.ok /\ r.p = Len(text) + 1
     THEN InternalizeJSONProperty(revs, r.v)
     ELSE Throw("SyntaxError")

(***************************************************************************)
(* Registry helpers                                                        *)
(***************************************************************************)
SetMin(S) == CHOOSE x \in S : \A y \in S : x <= y

\* seq.indexOf(seq.find($ => $.tag === tag)): 0-based index of the first
\* entry with this tag, -1 when there is none
IndexOfTag(seq, tag) ==
  LET hits == {i \in 1..Len(seq) : seq[i].tag = tag}
  IN IF hits = {} THEN -1 ELSE SetMin(hits) - 1

\* find(tag) that takes index 0 for "not found" (replacer > 0 in place of
\* replacer >= 0)
FindSkipsFirst(reps, revs, tag) ==
  LET replacer == IndexOfTag(reps, tag)
      reviver == IndexOfTag(reps, tag)
  IN IF replacer > 0 /\ reviver > 0 THEN <<replacer, reviver>> ELSE << >>

\* find(tag) without the test of the indices
FindNoGuard(reps, revs, tag) ==
  <<IndexOfTag(reps, tag), IndexOfTag(reps, tag)>>

\* find(tag) with both indices taken from the replacers sequence: the pair
\* [replacer, reviver], or << >> for undefined
Find(reps, revs, tag) ==
  LET replacer == IndexOfTag(reps, tag)
      reviver == IndexOfTag(reps, tag)
  IN IF replacer >= 0 /\ reviver >= 0 THEN <<replacer, reviver>> ELSE << >>

\* Array.prototype.splice(start, deleteCount) with a 0-based start
Splice(seq, start, deleteCount) ==
  LET from == IF start > Len(seq) THEN Len(seq) ELSE start
  IN SubSeq(seq, 1, from) \o SubSeq(seq, from + deleteCount + 1, Len(seq))

HasTag(seq, tag) == \E i \in 1..Len(seq) : seq[i].tag = tag

TagsOf(seq) == [i \in 1..Len(seq) |-> seq[i].tag]

\* the record of the last call: its name, arguments, outcome and the
\* sequences as they were when it was made
Call(op, tag, fn, outcome) ==
  [op |-> op, tag |-> tag, fn |-> fn, outcome |-> outcome,
   reps |-> replacers, revs |-> revivers, handles |-> handles]

(***************************************************************************)
(* Initial state: static replacers = [], static revivers = []              *)
(***************************************************************************)
Init ==
  /\ replacers = << >>
  /\ revivers = << >>
  /\ stages = {}
  /\ handles = {}
  /\ last = [op |-> "init", tag |-> Null, fn |-> Null, outcome |-> "ok",
             reps |-> << >>, revs |-> << >>, handles |-> {}]
  /\ npush = [reps |-> 0, revs |-> 0]
  /\ nmod = 0
  /\ npass = 0
  /\ input = Null

(***************************************************************************)
(* add(tag) and the builder stages                                         *)
(***************************************************************************)
\* the stage objects the caller holds after a step on stage st that returned
\* stage new: it may keep st (to use it again), new (to go on), both or
\* neither, and holds at most MaxStages of them
Keep(st, new) ==
  {S \in {(stages \ st) \cup K : K \in SUBSET (st \cup new)} : Cardinality(S) <= MaxStages}

AddStage(tag) == [kind |-> "add", tag |-> tag, check |-> "-"]
CheckStage(tag, check) == [kind |-> "check", tag |-> tag, check |-> check]
ReplacerStageOf(tag) == [kind |-> "replacer", tag |-> tag, check |-> "-"]

\* add(tag): the first builder stage, or a throw
Add(tag) ==
  /\ IF TypeOf(tag) # "string"
     THEN /\ last' = Call("add", tag, Null, "TypeError")
          /\ UNCHANGED stages
     ELSE IF Find(replacers, revivers, tag.s) # << >>
     THEN /\ last' = Call("add", tag, Null, "ExistsError")
          /\ UNCHANGED stages
     ELSE /\ stages' \in Keep({}, {AddStage(tag.s)})
          /\ last' = Call("add", tag, Null, "ok")
  /\ UNCHANGED <<replacers, revivers, handles, npush, nmod, npass, input>>

\* .check(checkExec) on a stage returned by add
Check(st, fn) ==
  /\ st \in stages
  /\ st.kind = "add"
  /\ IF TypeOf(fn) # "function"
     THEN /\ last' = Call("check", Str(st.tag), fn, "TypeError")
          /\ UNCHANGED stages
     ELSE /\ stages' \in Keep({st}, {CheckStage(st.tag, fn.id)})
          /\ last' = Call("check", Str(st.tag), fn, "ok")
  /\ UNCHANGED <<replacers, revivers, handles, npush, nmod, npass, input>>

\* .replacer(replaceExec) on a stage returned by check
ReplacerStage(st, fn) ==
  /\ st \in stages
  /\ st.kind = "check"
  /\ IF TypeOf(fn) # "function"
     THEN /\ last' = Call("replacer", Str(st.tag), fn, "TypeError")
          /\ UNCHANGED <<replacers, stages, npush>>
     ELSE /\ npush.reps < MaxEntries
          /\ replacers' = Append(replacers, [tag |-> st.tag, check |-> st.check, exec |-> fn.id])
          /\ stages' \in Keep({st}, {ReplacerStageOf(st.tag)})
          /\ npush' = [npush EXCEPT !.reps = @ + 1]
          /\ last' = Call("replacer", Str(st.tag), fn, "ok")
  /\ UNCHANGED <<revivers, handles, nmod, npass, input>>

\* .reviver(reviveExec) on a stage returned by replacer
ReviverStage(st, fn) ==
  /\ st \in stages
  /\ st.kind = "replacer"
  /\ IF TypeOf(fn) # "function"
     THEN /\ last' = Call("reviver", Str(st.tag), fn, "TypeError")
          /\ UNCHANGED <<revivers, stages, npush>>
     ELSE /\ npush.revs < MaxEntries
          /\ revivers' = Append(revivers, [tag |-> st.tag, exec |-> fn.id])
          /\ stages' \in Keep({st}, {})
          /\ npush' = [npush EXCEPT !.revs = @ + 1]
          /\ last' = Call("reviver", Str(st.tag), fn, "ok")
  /\ UNCHANGED <<replacers, handles, nmod, npass, input>>

(***************************************************************************)
(* modify(tag) and the handle it returns                                   *)
(***************************************************************************)
\* modify(tag): a handle closing over tag and find, or a throw
Modify(tag) ==
  /\ IF TypeOf(tag) # "string"
     THEN /\ last' = Call("modify", tag, Null, "TypeError")
          /\ UNCHANGED handles
     ELSE IF Find(replacers, revivers, tag.s) = << >>
     THEN /\ last' = Call("modify", tag, Null, "NotFoundError")
          /\ UNCHANGED handles
     ELSE /\ handles' = handles \cup {[tag |-> tag.s, find |-> Find(replacers, revivers, tag.s)]}
          /\ last' = Call("modify", tag, Null, "ok")
  /\ UNCHANGED <<replacers, revivers, stages, npush, nmod, npass, input>>

\* the handle that the trailing "return TJSON.modify(tag)" of a handle step gives
Rehandle(h) == [tag |-> h.tag, find |-> Find(replacers, revivers, h.tag)]

\* handle.check(exec): TJSON.replacers[find[0]].check = exec
ModifyCheck(h, fn) ==
  /\ h \in handles
  /\ IF TypeOf(fn) # "function"
     THEN /\ last' = Call("modify.check", Str(h.tag), fn, "TypeError")
          /\ UNCHANGED <<replacers, handles, nmod>>
     ELSE /\ nmod < MaxMods
          /\ replacers' = [replacers EXCEPT ![h.find[1] + 1].check = fn.id]
          /\ handles' = handles \cup {Rehandle(h)}
          /\ nmod' = nmod + 1
          /\ last' = Call("modify.check", Str(h.tag), fn, "ok")
  /\ UNCHANGED <<revivers, stages, npush, npass, input>>

\* handle.replacer(exec): TJSON.replacers[find[0]].exec = exec
ModifyReplacer(h, fn) ==
  /\ h \in handles
  /\ IF TypeOf(fn) # "function"
     THEN /\ last' = Call("modify.replacer", Str(h.tag), fn, "TypeError")
          /\ UNCHANGED <<replacers, handles, nmod>>
     ELSE /\ nmod < MaxMods
          /\ replacers' = [replacers EXCEPT ![h.find[1] + 1].exec = fn.id]
          /\ handles' = handles \cup {Rehandle(h)}
          /\ nmod' = nmod + 1
          /\ last' = Call("modify.replacer", Str(h.tag), fn, "ok")
  /\ UNCHANGED <<revivers, stages, npush, npass, input>>

\* handle.reviver(exec): TJSON.revivers[find[1]].exec = exec; the assignment
\* throws a TypeError when revivers has no element at that index
ModifyReviver(h, fn) ==
  /\ h \in handles
  /\ IF TypeOf(fn) # "function"
     THEN /\ last' = Call("modify.reviver", Str(h.tag), fn, "TypeError")
          /\ UNCHANGED <<revivers, handles, nmod>>
     ELSE IF h.find[2] >= Len(revivers)
     THEN /\ last' = Call("modify.reviver", Str(h.tag), fn, "TypeError")
          /\ UNCHANGED <<revivers, handles, nmod>>
     ELSE /\ nmod < MaxMods
          /\ revivers' = [revivers EXCEPT ![h.find[2] + 1].exec = fn.id]
          /\ handles' = handles \cup {Rehandle(h)}
          /\ nmod' = nmod + 1
          /\ last' = Call("modify.reviver", Str(h.tag), fn, "ok")
  /\ UNCHANGED <<replacers, stages, npush, npass, input>>

(***************************************************************************)
(* remove(tag)                                                             *)
(***************************************************************************)
\* remove(tag): destructuring the result of find throws a TypeError when
\* find returns undefined; otherwise both splices delete 0 elements
Remove(tag) ==
  /\ IF TypeOf(tag) # "string"
     THEN /\ last' = Call("remove", tag, Null, "TypeError")
          /\ UNCHANGED <<replacers, revivers>>
     ELSE LET find == Find(replacers, revivers, tag.s)
          IN IF find = << >>
             THEN /\ last' = Call("remove", tag, Null, "TypeError")
                  /\ UNCHANGED <<replacers, revivers>>
             ELSE /\ last' = Call("remove", tag, Null, "ok")
                  /\ IF find[1] # 0 /\ find[2] # 0
                     THEN /\ replacers' = Splice(replacers, find[1], 0)
                          /\ revivers' = Splice(revivers, find[2], 0)
                     ELSE UNCHANGED <<replacers, revivers>>
  /\ UNCHANGED <<stages, handles, npush, nmod, npass, input>>

(***************************************************************************)
(* activateStandards()                                                     *)
(***************************************************************************)
RECURSIVE ActivateFromUnchecked(_, _, _)
\* the loop without the "already exists" test of add
ActivateFromUnchecked(i, reps, revs) ==
  IF i > Len(Standards)
  THEN [reps |-> reps, revs |-> revs, outcome |-> "ok"]
  ELSE ActivateFromUnchecked(i + 1,
         Append(reps, [tag |-> Standards[i].tag, check |-> Standards[i].check,
                       exec |-> Standards[i].replacer]),
         Append(revs, [tag |-> Standards[i].tag, exec |-> Standards[i].reviver]))

RECURSIVE ActivateFrom(_, _, _)
\* standards.forEach from element i on: each element runs the whole chain
\* add($.tag).check($.check).replacer($.replacer).reviver($.reviver); the
\* first add that throws ends the loop and keeps what was pushed before
ActivateFrom(i, reps, revs) ==
  IF i > Len(Standards)
  THEN [reps |-> reps, revs |-> revs, outcome |-> "ok"]
  ELSE IF Find(reps, revs, Standards[i].tag) # << >>
  THEN [reps |-> reps, revs |-> revs, outcome |-> "ExistsError"]
  ELSE ActivateFrom(i + 1,
         Append(reps, [tag |-> Standards[i].tag, check |-> Standards[i].check,
                       exec |-> Standards[i].replacer]),
         Append(revs, [tag |-> Standards[i].tag, exec |-> Standards[i].reviver]))

ActivateStandards ==
  LET r == ActivateFrom(1, replacers, revivers)
  IN /\ replacers' = r.reps
     /\ revivers' = r.revs
     /\ last' = Call("activateStandards", Null, Null, r.outcome)
     /\ UNCHANGED <<stages, handles, npush, nmod, npass, input>>

(***************************************************************************)
(* The registry as a state machine                                         *)
(***************************************************************************)
Next ==
  \/ \E tag \in TagArgs : Add(tag)
  \/ \E st \in stages, fn \in FnArgs : Check(st, fn)
  \/ \E st \in stages, fn \in FnArgs : ReplacerStage(st, fn)
  \/ \E st \in stages, fn \in FnArgs : ReviverStage(st, fn)
  \/ \E tag \in TagArgs : Modify(tag)
  \/ \E h \in handles, fn \in ModArgs : ModifyCheck(h, fn)
  \/ \E h \in handles, fn \in ModArgs : ModifyReplacer(h, fn)
  \/ \E h \in handles, fn \in ModArgs : ModifyReviver(h, fn)
  \/ \E tag \in TagArgs : Remove(tag)
  \/ ActivateStandards

Spec == Init /\ [][Next]_vars

(***************************************************************************)
(* The two passes on registries with codecs of a caller                    *)
(***************************************************************************)
\* entries in a registry the passes are run on
MaxCodecs == 2
\* encode passes run over the same value
MaxPasses == 2

\* a tag of a caller, and a second one that is a prefix of it
T0 == <<"(", "0">>
PassTags == {T06, T0}

\* the sequences of at most n elements of S
SeqsUpTo(S, n) == UNION {[1..m -> S] : m \in 0..n}

PassReplacerEntries ==
  [tag : PassTags, check : {"isNumber", "always"}, exec : {"constA", "identity", "empty"}]
PassReviverEntries ==
  [tag : PassTags, exec : {"constA", "identity", "undef"}]

\* the replacers entries of complete chains that pushed the revivers revs
ChainsOf(revs) ==
  [i \in 1..Len(revs) |-> [tag |-> revs[i].tag, check |-> "always", exec |-> "identity"]]

\* values held under a key, and values handed to the decode pass
PassValues ==
  {Num(0), Num(1), Null, Bool(FALSE), Str(<<"x">>),
   Str(<<"(", "0", "6", ")", "x">>), Str(<<"(", "0", "6", ")">>), Str(<<"(", "0">>)}

\* objects and arrays handed to the encode pass
PassObjects ==
  {Obj(<<[key |-> <<"a">>, val |-> v]>>) : v \in PassValues}
  \cup {Obj(<<[key |-> <<"a">>, val |-> Num(0)], [key |-> <<"b">>, val |-> v]>>) : v \in PassValues}
  \cup {Arr(<<v>>) : v \in PassValues}
  \cup {Obj(<< >>), Arr(<< >>)}

\* registries that chains of the builder leave behind: replacers of chains
\* that stopped after .replacer, or the two sequences of completed chains
InitPass ==
  /\ \/ /\ replacers \in SeqsUpTo(PassReplacerEntries, MaxCodecs)
        /\ revivers = << >>
     \/ /\ revivers \in SeqsUpTo(PassReviverEntries, MaxCodecs)
        /\ replacers = ChainsOf(revivers)
  /\ stages = {}
  /\ handles = {}
  /\ last = [op |-> "init"]
  /\ npush = [reps |-> Len(replacers), revs |-> Len(revivers)]
  /\ nmod = 0
  /\ npass = 0
  /\ input \in PassObjects \cup PassValues

\* TJSON.replacer(name, val) on the value the caller holds: the rewritten
\* keys are written into that value
ReplacerCall ==
  /\ npass < MaxPasses
  /\ \E res \in {Replacer(replacers, input)} :
       /\ last' = [op |-> "replacer", arg |-> input, res |-> res]
       /\ input' = res.v
  /\ npass' = npass + 1
  /\ UNCHANGED <<replacers, revivers, stages, handles, npush, nmod>>

\* TJSON.reviver(name, val) on the value the caller holds
ReviverCall ==
  /\ last' = [op |-> "reviver", arg |-> input, res |-> Reviver(revivers, input)]
  /\ UNCHANGED <<replacers, revivers, stages, handles, npush, nmod, npass, input>>

NextPass ==
  \/ ReplacerCall
  \/ ReviverCall

SpecPass == InitPass /\ [][NextPass]_vars

(***************************************************************************)
(* stringify and parse with the standard codecs                            *)
(***************************************************************************)
\* integers and big integers run over -MaxInt..MaxInt
MaxInt == 40
\* members of an object, elements of an array
MaxWidth == 2

\* the registry after activateStandards() on the empty registry
StdReplacers == ActivateFrom(1, << >>, << >>).reps
StdRevivers == ActivateFrom(1, << >>, << >>).revs

KeyNames == << <<"k">>, <<"j">>, <<"i">> >>

\* scalars of the underlying format: 0, a negative and a two-digit base-36
\* number, strings (one beginning with the text of a tag, one holding
\* characters that JSON escapes), booleans, null
Leaves ==
  {Num(0), Num(-1), Num(36), Str(<< >>), Str(<<"a">>), Str(<<"(", "0", "0", ")", "a">>),
   Str(<<"\"", "\\">>), Bool(TRUE), Bool(FALSE), Null}

ArraysOf(S, n) == {Arr(e) : e \in SeqsUpTo(S, n)}
ObjectsOf(S, n) ==
  {Obj([j \in 1..Len(e) |-> [key |-> KeyNames[j], val |-> e[j]]]) : e \in SeqsUpTo(S, n)}

\* acyclic trees of JSON-native values, two levels deep
NativeTrees ==
  Leaves
  \cup ArraysOf(Leaves, MaxWidth) \cup ObjectsOf(Leaves, MaxWidth)
  \cup ArraysOf(ArraysOf(Leaves, 1) \cup ObjectsOf(Leaves, 1), 1)
  \cup ObjectsOf(ArraysOf(Leaves, 1) \cup ObjectsOf(Leaves, 1), 1)

UnderK(v) == Obj(<<[key |-> <<"k">>, val |-> v]>>)

\* the object {key: v}
Under(key, v) == Obj(<<[key |-> key, val |-> v]>>)

WhenKey == <<"w", "h", "e", "n">>
AgeKey == <<"a", "g", "e">>

\* README: { age: 27, when: <instant> }
AgeWhen(t) == Obj(<<[key |-> AgeKey, val |-> Num(27)], [key |-> WhenKey, val |-> Date(Num(t))]>>)

\* Dates with an epoch value of -MaxInt..MaxInt under the key when, alone and
\* after age: 27
DateInputs ==
  {Under(WhenKey, Date(Num(t))) : t \in -MaxInt..MaxInt}
  \cup {AgeWhen(t) : t \in -MaxInt..MaxInt}

\* keys, values and members of the collections: a string, numbers (0 among
\* them) and Dates (the epoch and an instant before it)
CollLeaves == {Str(<<"a">>), Num(0), Num(27), Date(Num(0)), Date(Num(-1))}

\* Sets of at most n members of S, Maps of at most n entries whose keys and
\* values are in S (a Map or Set holds a primitive once)
SetsOf(S, n) ==
  {Set(e) : e \in {x \in SeqsUpTo(S, n) : \A i, j \in 1..Len(x) : i # j => x[i] # x[j]}}
MapsOf(S, n) ==
  {Map(e) : e \in {x \in SeqsUpTo(S \X S, n) : \A i, j \in 1..Len(x) : i # j => x[i][1] # x[j][1]}}

\* flat collections and collections holding one flat collection
FlatCollections == SetsOf(CollLeaves, MaxWidth) \cup MapsOf(CollLeaves, 1)
   \cup {Map(<< <<Str(<<"a">>), v>>, <<Str(<<"b">>), w>> >>) : v, w \in {Num(27), Date(Num(0))}}
SmallCollections == SetsOf(CollLeaves, 1) \cup MapsOf({Str(<<"a">>), Num(27)}, 1)
NestedCollections ==
  {Set(<<c>>) : c \in SmallCollections}
  \cup {Map(<< <<Str(<<"a">>), c>> >>) : c \in SmallCollections}
  \cup {Map(<< <<c, Num(27)>> >>) : c \in SetsOf({Str(<<"a">>)}, 1)}
Collections == FlatCollections \cup NestedCollections

\* values that a standard codec encodes: a number, a Date, a Map, a Set
Encodable ==
  {Num(0), Num(27), Date(Num(0)), Date(Num(-1)),
   Map(<< >>), Map(<< <<Str(<<"a">>), Num(27)>> >>), Set(<< >>), Set(<<Num(27)>>)}

\* an encodable value as the root, and held in an array or under a key one
\* and two levels down
RootInputs ==
  Encodable
  \cup {Arr(<<v>>) : v \in Encodable} \cup {Arr(<<Arr(<<v>>)>>) : v \in Encodable}
  \cup {UnderK(Arr(<<v>>)) : v \in Encodable} \cup {Arr(<<UnderK(v)>>) : v \in Encodable}
  \cup {UnderK(UnderK(v)) : v \in Encodable}

StdInputs ==
  NativeTrees
  \cup {UnderK(Num(n)) : n \in -MaxInt..MaxInt}
  \cup {UnderK(Big(b)) : b \in -MaxInt..MaxInt}
  \cup DateInputs
  \cup {UnderK(c) : c \in Collections}
  \cup RootInputs
  \cup {UnderK(Set(<<Big(0)>>)), Obj(<<[key |-> <<"k">>, val |-> Num(27)],
                                        [key |-> <<"j">>, val |-> Set(<<Big(0)>>)]>>)}

InitStd ==
  /\ \/ replacers = << >> /\ revivers = << >>
     \/ replacers = StdReplacers /\ revivers = StdRevivers
  /\ stages = {}
  /\ handles = {}
  /\ last = [op |-> "init"]
  /\ npush = [reps |-> Len(replacers), revs |-> Len(revivers)]
  /\ nmod = 0
  /\ npass = 0
  /\ input \in StdInputs

\* TJSON.stringify(value) on the value the caller holds: the encode pass
\* writes the tagged strings into that value
StringifyCall ==
  /\ npass < MaxPasses
  /\ \E res \in {Stringify(replacers, input)} :
       /\ last' = [op |-> "stringify", arg |-> input, res |-> res]
       /\ input' = res.mut
  /\ npass' = npass + 1
  /\ UNCHANGED <<replacers, revivers, stages, handles, npush, nmod>>

\* TJSON.parse(text) of the text that the last stringify returned
ParseCall ==
  /\ last.op = "stringify"
  /\ last.res.k = "text"
  /\ last' = [op |-> "parse", arg |-> last.res.t, of |-> last.arg,
              res |-> Parse(revivers, last.res.t)]
  /\ UNCHANGED <<replacers, revivers, stages, handles, npush, nmod, npass, input>>

NextStd ==
  \/ StringifyCall
  \/ ParseCall

SpecStd == InitStd /\ [][NextStd]_vars

StandardsActive == replacers = StdReplacers /\ revivers = StdRevivers

(***************************************************************************)
(* Properties                                                              *)
(***************************************************************************)
Distinct(seq) == \A i, j \in 1..Len(seq) : i # j => seq[i] # seq[j]

\* seq without the entries that carry the tag, the others in their order
Without(seq, tag) == SelectSeq(seq, LAMBDA e : e.tag # tag)

\* the last call was op, made with a string tag that had an entry in both
\* sequences when the call was made
OnRegistered(op) ==
  /\ last.op = op
  /\ TypeOf(last.tag) = "string"
  /\ HasTag(last.reps, last.tag.s)
  /\ HasTag(last.revs, last.tag.s)

\* the text {"k":"<s>"}
TextUnderK(s) ==
  <<"{", "\"", "k", "\"", ":", "\"">> \o s \o <<"\"", "}">>

\* C1: with the standard codecs active, {k: n} is written with k as (00)
\* followed by the base-36 digits of n, and parsing that text gives k = n,
\* for every integer n of -MaxInt..MaxInt
C1_ExactNumberRoundTrip ==
  \A n \in -MaxInt..MaxInt :
    StandardsActive =>
      /\ (last.op = "stringify" /\ last.arg = UnderK(Num(n)))
           => (last.res.k = "text" /\ last.res.t = TextUnderK(T00 \o IntToString(n, 36)))
      /\ (last.op = "parse" /\ last.of = UnderK(Num(n)))
           => last.res = UnderK(Num(n))

\* C2: no tag occurs more than once in the replacers sequence and no tag
\* occurs more than once in the revivers sequence
C2_NoDuplicateTags ==
  Distinct(TagsOf(replacers)) /\ Distinct(TagsOf(revivers))

\* C3: after remove(tag) of a fully registered tag neither sequence holds an
\* entry with the tag and the other entries keep their order
C3_RemoveDeletesEntry ==
  OnRegistered("remove") =>
    /\ last.outcome = "ok"
    /\ replacers = Without(last.reps, last.tag.s)
    /\ revivers = Without(last.revs, last.tag.s)

\* C4: parse(stringify(v)) = v for every tree v of JSON-native values, with
\* the registry empty or the standard codecs active
C4_NativeRoundTrip ==
  /\ (last.op = "stringify" /\ last.arg \in NativeTrees) => last.res.k = "text"
  /\ (last.op = "parse" /\ last.of \in NativeTrees) => last.res = last.of

\* the entries of reps whose check and then exec are truthy on v
Qualifying(reps, v) ==
  {i \in 1..Len(reps) : Truthy(ApplyFn(reps[i].check, v)) /\ Truthy(ApplyFn(reps[i].exec, v))}

\* the entries of reps whose check is truthy and whose exec is falsy on v
Refusing(reps, v) ==
  {i \in 1..Len(reps) : Truthy(ApplyFn(reps[i].check, v)) /\ ~Truthy(ApplyFn(reps[i].exec, v))}

\* C5: the encode pass stores at each key tag ++ payload of the first entry in
\* registration order whose check and exec are truthy, leaves the value when
\* there is none, adds and removes no key, and calls exec only for entries
\* whose check was truthy
C5_FirstMatchEncodes ==
  last.op = "replacer" =>
    LET before == Members(last.arg)
        after == Members(last.res.v)
    IN /\ last.res.v.k = last.arg.k
       /\ Len(after) = Len(before)
       /\ last.arg.k = "obj" =>
            \A j \in 1..Len(before) : last.res.v.f[j].key = last.arg.f[j].key
       /\ last.arg.k \notin {"obj", "arr"} => last.res.v = last.arg
       /\ \A j \in 1..Len(before) :
            LET q == Qualifying(replacers, before[j])
            IN IF q = {}
               THEN after[j] = before[j]
               ELSE after[j] = Str(replacers[SetMin(q)].tag
                                   \o ToStringJS(ApplyFn(replacers[SetMin(q)].exec, before[j])))
       /\ \A c \in 1..Len(last.res.log) :
            last.res.log[c].what = "exec"
              => Truthy(ApplyFn(replacers[last.res.log[c].i].check, last.res.log[c].arg))

\* a pass over an object in which, at one key, an entry with truthy check and
\* falsy exec was passed over for a later one and, at another key, two
\* entries qualified
C5_Witness ==
  /\ last.op = "replacer"
  /\ last.arg.k = "obj"
  /\ \E j \in 1..Len(last.arg.f) :
       LET v == last.arg.f[j].val
       IN /\ Qualifying(replacers, v) # {}
          /\ \E i \in Refusing(replacers, v) : i < SetMin(Qualifying(replacers, v))
          /\ last.res.v.f[j].val # v
  /\ \E j \in 1..Len(last.arg.f) :
       LET v == last.arg.f[j].val
       IN /\ Cardinality(Qualifying(replacers, v)) >= 2
          /\ last.res.v.f[j].val # v

\* the revivers whose tag is a prefix of the string s and whose exec is
\* truthy on the rest of s
Reviving(revs, s) ==
  {i \in 1..Len(revs) :
     /\ StartsWith(s, revs[i].tag)
     /\ Truthy(ApplyFn(revs[i].exec, Str(Slice(s, Len(revs[i].tag)))))}

\* C6: the decode pass replaces a string by the result of the first entry of
\* revivers whose tag is a prefix of it and whose exec is truthy on the
\* substring after the tag, calls exec with exactly that substring, and
\* returns every other value as it was handed in
C6_FirstPrefixDecodes ==
  last.op = "reviver" =>
    /\ TypeOf(last.arg) # "string" => (last.res.v = last.arg /\ last.res.log = << >>)
    /\ TypeOf(last.arg) = "string" =>
         LET q == Reviving(revivers, last.arg.s)
         IN /\ IF q = {}
               THEN last.res.v = last.arg
               ELSE last.res.v = ApplyFn(revivers[SetMin(q)].exec,
                                         Str(Slice(last.arg.s, Len(revivers[SetMin(q)].tag))))
            /\ \A c \in 1..Len(last.res.log) :
                 LET i == last.res.log[c].i
                 IN /\ StartsWith(last.arg.s, revivers[i].tag)
                    /\ last.res.log[c].arg = Str(Slice(last.arg.s, Len(revivers[i].tag)))

\* a string whose first prefix-matching entry returned a falsy result and
\* that a later entry decoded to something else
C6_Witness ==
  /\ last.op = "reviver"
  /\ TypeOf(last.arg) = "string"
  /\ Reviving(revivers, last.arg.s) # {}
  /\ \E i \in 1..Len(revivers) :
       /\ i < SetMin(Reviving(revivers, last.arg.s))
       /\ StartsWith(last.arg.s, revivers[i].tag)
  /\ last.res.v # last.arg

\* C7: add(tag) for a tag whose registration chain has completed throws the
\* "already exists" error and leaves both sequences as they were
C7_DuplicateAddThrows ==
  OnRegistered("add") =>
    /\ last.outcome = "ExistsError"
    /\ replacers = last.reps
    /\ revivers = last.revs

\* an add that threw "already exists" for a tag that a completed chain of the
\* caller registered
C7_Witness ==
  /\ OnRegistered("add")
  /\ last.outcome = "ExistsError"
  /\ \E i \in 1..Len(last.revs) : last.revs[i].tag = last.tag.s /\ last.revs[i].exec = "f"

\* C8: modify(tag) for a tag without an entry throws the "not found" error,
\* returns no handle and leaves both sequences as they were
C8_ModifyUnknownThrows ==
  (/\ last.op = "modify"
   /\ TypeOf(last.tag) = "string"
   /\ ~HasTag(last.reps, last.tag.s)
   /\ ~HasTag(last.revs, last.tag.s))
  => /\ last.outcome = "NotFoundError"
     /\ handles = last.handles
     /\ replacers = last.reps
     /\ revivers = last.revs

\* a modify that threw "not found" while other tags were registered
C8_Witness ==
  /\ last.op = "modify"
  /\ last.outcome = "NotFoundError"
  /\ Len(replacers) > 0
  /\ Len(revivers) > 0

\* C9: a handle step with a function, for a tag that has an entry in both
\* sequences, replaces exactly the named component of the entry carrying the
\* tag, leaves everything else as it was and returns a handle for the tag
C9_ModifyReplacesNamedComponent ==
  \A op \in {"modify.check", "modify.replacer", "modify.reviver"} :
    (OnRegistered(op) /\ TypeOf(last.fn) = "function") =>
      LET t == last.tag.s
          ri == IndexOfTag(last.reps, t) + 1
          vi == IndexOfTag(last.revs, t) + 1
      IN /\ last.outcome = "ok"
         /\ op = "modify.check" =>
              /\ replacers = [last.reps EXCEPT ![ri].check = last.fn.id]
              /\ revivers = last.revs
         /\ op = "modify.replacer" =>
              /\ replacers = [last.reps EXCEPT ![ri].exec = last.fn.id]
              /\ revivers = last.revs
         /\ op = "modify.reviver" =>
              /\ revivers = [last.revs EXCEPT ![vi].exec = last.fn.id]
              /\ replacers = last.reps
         /\ \E h \in handles : h.tag = t

\* C10: with the standard codecs active, {k: b} is written with k as (01)
\* followed by the decimal text of b, and parsing that text gives k = b, for
\* every big integer b of -MaxInt..MaxInt
C10_BigIntRoundTrip ==
  \A b \in -MaxInt..MaxInt :
    StandardsActive =>
      /\ (last.op = "stringify" /\ last.arg = UnderK(Big(b)))
           => (last.res.k = "text" /\ last.res.t = TextUnderK(T01 \o IntToString(b, 10)))
      /\ (last.op = "parse" /\ last.of = UnderK(Big(b)))
           => last.res = UnderK(Big(b))

\* the text {"<key>":"<s>"} and the text {"age":"(00)r","when":"<s>"}
TextUnder(key, s) ==
  <<"{">> \o QuoteJSONString(key) \o <<":", "\"">> \o s \o <<"\"", "}">>
TextAgeWhen(s) ==
  <<"{">> \o QuoteJSONString(AgeKey) \o <<":", "\"", "(", "0", "0", ")", "r", "\"", ",">>
          \o QuoteJSONString(WhenKey) \o <<":", "\"">> \o s \o <<"\"", "}">>

\* C11: with the standard codecs active, {when: d} is written with when as
\* (03) followed by the base-36 text of d's epoch value and {age: 27, when: d}
\* with age as (00)r before it, and parsing either text gives back the number
\* and a Date with the same epoch value, for every epoch value of
\* -MaxInt..MaxInt
C11_DateRoundTrip ==
  \A t \in -MaxInt..MaxInt :
    StandardsActive =>
      /\ (last.op = "stringify" /\ last.arg = Under(WhenKey, Date(Num(t))))
           => (last.res.k = "text" /\ last.res.t = TextUnder(WhenKey, T03 \o IntToString(t, 36)))
      /\ (last.op = "stringify" /\ last.arg = AgeWhen(t))
           => (last.res.k = "text" /\ last.res.t = TextAgeWhen(T03 \o IntToString(t, 36)))
      /\ (last.op = "parse" /\ last.of = Under(WhenKey, Date(Num(t))))
           => last.res = Under(WhenKey, Date(Num(t)))
      /\ (last.op = "parse" /\ last.of = AgeWhen(t))
           => last.res = AgeWhen(t)

\* a parse that gave back { age: 27, when: d } for a Date before the epoch
\* whose epoch value takes two base-36 digits
C11_Witness ==
  /\ StandardsActive
  /\ last.op = "parse"
  /\ \E t \in -MaxInt..-36 : last.of = AgeWhen(t) /\ last.res = AgeWhen(t)

\* the collections held under the key k
CollectionsUnderK == {UnderK(c) : c \in Collections}

\* the tag of the standard codec for the collection c
CollectionTag(c) == IF c.k = "map" THEN T04 ELSE T05

\* C12: with the standard codecs active, a Map or Set under a key, holding
\* strings, numbers, Dates and nested collections, is written as its tag
\* followed by the text of an array, and parsing that text gives back the
\* collection with the same entries in the same order
C12_CollectionRoundTrip ==
  StandardsActive =>
    /\ (last.op = "stringify" /\ last.arg \in CollectionsUnderK)
         => /\ last.res.k = "text"
            /\ StartsWith(last.res.t,
                  <<"{">> \o QuoteJSONString(<<"k">>) \o <<":", "\"">>
                          \o CollectionTag(last.arg.f[1].val) \o <<"[">>)
    /\ (last.op = "parse" /\ last.of \in CollectionsUnderK) => last.res = last.of

\* C13: a builder step handed a non-function (add handed a non-string)
\* throws a TypeError and afterwards neither sequence holds an entry for the
\* chain's tag, which had none before the step; a handle step handed a
\* non-function throws a TypeError and leaves both sequences as they were
C13_InvalidArgumentThrows ==
  /\ (last.op = "add" /\ TypeOf(last.tag) # "string")
       => (last.outcome = "TypeError" /\ replacers = last.reps /\ revivers = last.revs)
  /\ \A op \in {"check", "replacer", "reviver"} :
       (/\ last.op = op
        /\ TypeOf(last.fn) # "function"
        /\ op # "reviver" => ~HasTag(last.reps, last.tag.s))
       => /\ last.outcome = "TypeError"
          /\ ~HasTag(replacers, last.tag.s)
          /\ ~HasTag(revivers, last.tag.s)
  /\ \A op \in {"modify.check", "modify.replacer", "modify.reviver"} :
       (last.op = op /\ TypeOf(last.fn) # "function")
       => (last.outcome = "TypeError" /\ replacers = last.reps /\ revivers = last.revs)

\* the last call was activateStandards on a registry without any of the
\* standard tags
OnFreshStandards ==
  /\ last.op = "activateStandards"
  /\ \A i \in 1..Len(Standards) :
       ~HasTag(last.reps, Standards[i].tag) /\ ~HasTag(last.revs, Standards[i].tag)

\* C14: activateStandards on a registry without any of the tags (00) to (05)
\* appends the six standard entries, in their order, to the end of both
\* sequences; on a registry holding one of them it throws "already exists"
C14_ActivateAppendsSix ==
  last.op = "activateStandards" =>
    IF OnFreshStandards
    THEN /\ last.outcome = "ok"
         /\ replacers = last.reps \o StdReplacers
         /\ revivers = last.revs \o StdRevivers
    ELSE last.outcome = "ExistsError"

\* an activateStandards that appended the six entries behind entries of the
\* caller, the two sequences being of different lengths
C14_Witness ==
  /\ OnFreshStandards
  /\ last.outcome = "ok"
  /\ Len(last.reps) > Len(last.revs)
  /\ Len(last.revs) > 0
  /\ Len(replacers) = Len(last.reps) + Len(Standards)

\* the string tag of the last call had an entry in both sequences when the
\* call was made
HadBoth == HasTag(last.reps, last.tag.s) /\ HasTag(last.revs, last.tag.s)

\* C15: find(tag) gives the position of the tag in replacers and its position
\* in revivers when it has an entry in both, and undefined otherwise, so that
\* add succeeds and modify throws "not found" for a tag missing from either
C15_FindNeedsBothEntries ==
  /\ \A t \in Tags :
       Find(replacers, revivers, t) =
         IF HasTag(replacers, t) /\ HasTag(revivers, t)
         THEN <<IndexOfTag(replacers, t), IndexOfTag(revivers, t)>>
         ELSE << >>
  /\ (last.op = "add" /\ TypeOf(last.tag) = "string" /\ ~HadBoth) => last.outcome = "ok"
  /\ (last.op = "modify" /\ TypeOf(last.tag) = "string" /\ ~HadBoth)
       => last.outcome = "NotFoundError"

\* C16: remove(tag) for a tag without an entry leaves both sequences as they
\* were and returns normally or throws "not found", no other error
C16_RemoveUnknownTag ==
  (/\ last.op = "remove"
   /\ TypeOf(last.tag) = "string"
   /\ ~HasTag(last.reps, last.tag.s)
   /\ ~HasTag(last.revs, last.tag.s))
  => /\ last.outcome \in {"ok", "NotFoundError"}
     /\ replacers = last.reps
     /\ revivers = last.revs

\* C18: revivers lists the same tags in the same order as replacers
C18_SequencesAligned == TagsOf(revivers) = TagsOf(replacers)

\* C19: an activateStandards that throws leaves both sequences as they were
C19_ActivateAllOrNothing ==
  (last.op = "activateStandards" /\ last.outcome # "ok")
  => (replacers = last.reps /\ revivers = last.revs)

RECURSIVE WrittenInPlace(_, _)
\* after is before with, at every key of every object and array reached
\* through values that no codec encoded, the tagged string of the first
\* qualifying codec in place of a value that has one and the original value
\* otherwise, the keys being the same
WrittenInPlace(before, after) ==
  IF before.k \in {"obj", "arr"}
  THEN /\ after.k = before.k
       /\ Len(Members(after)) = Len(Members(before))
       /\ before.k = "obj" => \A j \in 1..Len(before.f) : after.f[j].key = before.f[j].key
       /\ \A j \in 1..Len(Members(before)) :
            LET v == Members(before)[j]
                q == Qualifying(replacers, v)
            IN IF q # {}
               THEN Members(after)[j] =
                      Str(replacers[SetMin(q)].tag \o ToStringJS(ApplyFn(replacers[SetMin(q)].exec, v)))
               ELSE WrittenInPlace(v, Members(after)[j])
  ELSE after = before

\* C17: after stringify(v) has returned, v holds the tagged string at every
\* key whose value a codec matched, the original value at every other key,
\* and the same keys as before, in every object and array reached through
\* values that were not encoded
C17_StringifyWritesInput ==
  (last.op = "stringify" /\ last.res.k = "text") => WrittenInPlace(last.arg, input)

\* a stringify with the standard codecs that wrote a tagged string at one key
\* of an object and left the value at another key of it
C17_Witness ==
  /\ StandardsActive
  /\ last.op = "stringify"
  /\ last.res.k = "text"
  /\ last.arg.k = "obj"
  /\ Len(last.arg.f) = 2
  /\ input.f[1].val # last.arg.f[1].val
  /\ StartsWith(input.f[1].val.s, T00)
  /\ input.f[2].val = last.arg.f[2].val

\* the standard tag for a number, a Date, a Map or a Set
TagFor(v) ==
  CASE v.k = "num" -> T00
    [] v.k = "date" -> T03
    [] v.k = "map" -> T04
    [] v.k = "set" -> T05

\* the JSON text of the string that the encode pass stores for v at a key
TaggedText(v) == QuoteJSONString(ScanReplacers(replacers, 1, v).v.s)

InArray(t) == <<"[">> \o t \o <<"]">>
InObject(t) == <<"{">> \o QuoteJSONString(<<"k">>) \o <<":">> \o t \o <<"}">>

\* C20: with the standard codecs active, a number, Date, Map or Set passed
\* to stringify as the root is written as the underlying format writes it
\* without any codec, and the same value held in an array or under a key,
\* one or two levels down, is written as a string beginning with its tag
C20_RootNotEncoded ==
  (StandardsActive /\ last.op = "stringify") =>
    \A v \in Encodable :
      /\ StartsWith(ScanReplacers(replacers, 1, v).v.s, TagFor(v))
      /\ last.arg = v => last.res = Stringify(<< >>, v)
      /\ last.arg = Arr(<<v>>) => last.res.t = InArray(TaggedText(v))
      /\ last.arg = Arr(<<Arr(<<v>>)>>) => last.res.t = InArray(InArray(TaggedText(v)))
      /\ last.arg = UnderK(Arr(<<v>>)) => last.res.t = InObject(InArray(TaggedText(v)))
      /\ last.arg = Arr(<<UnderK(v)>>) => last.res.t = InArray(InObject(TaggedText(v)))
      /\ last.arg = UnderK(UnderK(v)) => last.res.t = InObject(InObject(TaggedText(v)))

\* a stringify with the standard codecs of a Set as the root, written as {}
C20_Witness ==
  /\ StandardsActive
  /\ last.op = "stringify"
  /\ last.arg = Set(<<Num(27)>>)
  /\ last.res.k = "text"
  /\ last.res.t = <<"{", "}">>

====
